---------------------------- MODULE Spec2Model ----------------------------
(***************************************************************************)
(* The services of local-ai-suite: job tracking in the code-documentation  *)
(* generator, and the stores of the dashboard, the speech-to-text service  *)
(* and the image classifier.                                               *)
(*                                                                         *)
(*   Spec        ai-code-documentation-generator/src/main.py: the job      *)
(*               table jobs_db, POST /api/scan, the background task        *)
(*               process_documentation, GET /api/status and GET /health,   *)
(*               on asyncio's single-threaded cooperative event loop.      *)
(*   SpecFair    the state-changing steps of Spec on an event loop that    *)
(*               keeps resuming its tasks (weak fairness).                 *)
(*   SpecStore   Spec with the output directory in play: GET /api/download *)
(*               and POST /api/templates, and the host removing files.     *)
(*   SpecSimple  ai-code-documentation-generator/src/main_simple.py: the   *)
(*               variant whose submit completes the job inline.            *)
(*   SpecSource  main.py 110-119 with scanner.clone_repository: which      *)
(*               directory a task scans.                                   *)
(*   SpecWalk    scanner.scan_directory as a function of a directory tree. *)
(*   SpecChat    personal-ai-assistant-dashboard/backend/main_ollama.py:   *)
(*               POST /api/chat and GET /api/conversations/{session_id}.   *)
(*   SpecChatSimple  the same with main_simple.py's chat.                  *)
(*   SpecSpeech  local-speech-to-text/src/main.py: POST /api/transcribe,   *)
(*               POST /api/models/{name}, GET /api/transcriptions/{id}.    *)
(*   SpecPhoto   ai-image-classifier/src/main_simple.py: POST /api/upload  *)
(*               and GET /api/photos.                                      *)
(*                                                                         *)
(* Scheduling.  Every handler and the background task are coroutines of    *)
(* one event loop: code between two awaits that really suspend runs        *)
(* without interleaving.  `running` names the task that holds the loop.    *)
(* scanner.clone_repository and scanner.scan_directory contain no await    *)
(* (scanner.py:19-70), so the task keeps the loop across them;             *)
(* parser.parse_file, doc_generator.generate_documentation and             *)
(* template_manager.render_html are awaited collaborators that may         *)
(* suspend, so the loop is released there.  The framework runs a           *)
(* background task after the response of its request has been sent, so     *)
(* other requests may be served between a submit and the first step of     *)
(* its task.                                                               *)
(***************************************************************************)
EXTENDS Integers, Sequences, FiniteSets, TLC

\* ------------------------------------------------------------------ bounds
\* Number of POST /api/scan requests accepted (main.py); also the largest
\* clock reading of main_simple.py.
MaxSubmits == 2
\* Largest number of files a scan returns.
MaxFiles == 2
\* Largest number of files in a directory tree given to scan_directory.
MaxTree == 3
\* Number of POST /api/chat requests received by the dashboard.
MaxChats == 2
\* Number of POST /api/transcribe requests received by the speech service.
MaxTranscribes == 2
\* Number of photos uploaded to the image classifier.
MaxPhotos == 3
\* Number of distinct 8-character uuid prefixes / remainders (main_simple.py).
NumPrefix == 2
NumSuffix == 2

\* ------------------------------------------------------------------ values
\* Python's None.
NoVal == "None"

\* Exact rational a/b; progress is a float in the source and every value it
\* takes is 30 + 40*(i+1)/len(files) or a whole number.
Frac(a, b) == [num |-> a, den |-> b]
Whole(a) == Frac(a, 1)
FracLeq(p, q) == p.num * q.den <= q.num * p.den
FracLt(p, q) == p.num * q.den < q.num * p.den
FracEq(p, q) == p.num * q.den = q.num * p.den

\* ScanRequest bodies: one that clones and one that reads the local path;
\* one that writes the document as it is (markdown; every style but html
\* takes the same steps) and one that awaits render_html first (html).
ScanRequests ==
    {[repo_url |-> "https://example.com/x.git", doc_style |-> "markdown"],
     [repo_url |-> NoVal, doc_style |-> "html"]}

NonTerminal == {"scanning", "parsing", "generating"}
Terminal == {"completed", "failed"}

VARIABLES now, jobs_db, heap, tasks, running, jobs, resp, output

\* The state of the documentation generator (main.py, main_simple.py).
docVars == <<now, jobs_db, heap, tasks, running, jobs, resp, output>>

\* scanner.py on its own: the repos/ directory and the scans made so far.
VARIABLES repos, scans

sourceVars == <<repos, scans>>

\* scan_directory as a function: its last call, arguments and result.
VARIABLES walk

\* The assistant dashboard (main_ollama.py, main_simple.py): the dict
\* conversations, the chat requests received so far, and the last response
\* of GET /api/conversations/{session_id}.
VARIABLES conversations, chats, chatResp

chatVars == <<conversations, chats, chatResp>>

\* local-speech-to-text (main.py): whether startup has run, the
\* WhisperManager, the dict transcriptions_db, the temporary files on disk,
\* the transcribe requests received so far, and the last response of
\* POST /api/models/{model_name} or GET /api/transcriptions/{id}.
VARIABLES serving, whisper_manager, transcriptions_db, tmp, reqs, sttResp

speechVars == <<serving, whisper_manager, transcriptions_db, tmp, reqs, sttResp>>

\* ai-image-classifier (main_simple.py): the list photos and the last
\* response of GET /api/photos.
VARIABLES photos, photoResp

photoVars == <<photos, photoResp>>

\* The state of the programs other than the documentation generator's job
\* table.
others == <<sourceVars, walk, chatVars, speechVars, photoVars>>

\* What the steps of one program leave alone.
notSource == <<docVars, walk, chatVars, speechVars, photoVars>>
notWalk == <<docVars, sourceVars, chatVars, speechVars, photoVars>>
notChat == <<docVars, sourceVars, walk, speechVars, photoVars>>
notSpeech == <<docVars, sourceVars, walk, chatVars, photoVars>>
notPhoto == <<docVars, sourceVars, walk, chatVars, speechVars>>

vars == <<docVars, others>>

\* No submit has been answered yet.
NoResp == [op |-> "none"]

\* ------------------------------------------------------- main.py: records
\* DocumentationJob(job_id, status="scanning", progress=0.0, message=...),
\* result_path and error defaulting to None.
NewJob(job_id) ==
    [job_id |-> job_id, status |-> "scanning", progress |-> Whole(0),
     message |-> "Starting codebase scan...", result_path |-> NoVal,
     error |-> NoVal]

\* The background task scheduled by add_task, before its first step.
NewTask(job_id, request) ==
    [pc |-> "pending", job_id |-> job_id, request |-> request, job |-> 0,
     files |-> 0, i |-> 0, exc |-> NoVal]

\* jobs_db[job_id] = job
DictSet(d, k, v) == [x \in DOMAIN d \cup {k} |-> IF x = k THEN v ELSE d[x]]

\* jobs_db[job_id]: the record a request for job_id reads.
Job(id) == heap[jobs_db[id]]

Init ==
    /\ now = 0
    /\ jobs_db = <<>>
    /\ heap = <<>>
    /\ tasks = <<>>
    /\ running = 0
    /\ jobs = <<>>
    /\ resp = NoResp
    /\ output = <<>>
    /\ repos = <<>>
    /\ scans = <<>>
    /\ walk = [op |-> "none"]
    /\ conversations = <<>>
    /\ chats = <<>>
    /\ chatResp = NoResp
    /\ serving = FALSE
    /\ whisper_manager = [model |-> NoVal, model_name |-> "base"]
    /\ transcriptions_db = <<>>
    /\ tmp = {}
    /\ reqs = <<>>
    /\ sttResp = NoResp
    /\ photos = <<>>
    /\ photoResp = NoResp

\* The wall clock advances between two requests, or does not.  Readings are
\* numbered in the order submits take them: a reading no submit has taken is
\* not told apart from the next one, and no reading is told apart once the
\* last submit has been made (nothing else reads the clock into the state).
Tick ==
    /\ now \in DOMAIN jobs_db
    /\ Len(tasks) < MaxSubmits
    /\ now' = now + 1
    /\ UNCHANGED <<jobs_db, heap, tasks, running, jobs, resp, output, others>>

\* job_id = str(datetime.now().timestamp()): the clock reading itself (str
\* is one-to-one on timestamps).
JobIdOf(t) == t

\* The submit handler without line 91: the task is scheduled for a record
\* the table does not hold.
ScanCodebaseUnregistered(request) ==
    /\ running = 0
    /\ Len(tasks) < MaxSubmits
    /\ LET job_id == JobIdOf(now)
       IN /\ heap' = Append(heap, NewJob(job_id))
          /\ tasks' = Append(tasks, NewTask(job_id, request))
          /\ resp' = [op |-> "scan", code |-> 200, job_id |-> job_id,
                      status |-> "started"]
    /\ UNCHANGED <<now, running, jobs, output, jobs_db, others>>

\* POST /api/scan
ScanCodebase(request) ==
    /\ running = 0
    /\ Len(tasks) < MaxSubmits
    /\ LET job_id == JobIdOf(now)
           ref == Len(heap) + 1
       IN /\ heap' = Append(heap, NewJob(job_id))
          /\ jobs_db' = DictSet(jobs_db, job_id, ref)
          /\ tasks' = Append(tasks, NewTask(job_id, request))
          /\ resp' = [op |-> "scan", code |-> 200, job_id |-> job_id,
                      status |-> "started"]
    /\ UNCHANGED <<now, running, jobs, output, others>>


\* ------------------------------------------- main.py: process_documentation
\* Lines 105-108.
Scanning(j) ==
    [j EXCEPT !.status = "scanning", !.progress = Whole(10),
              !.message = "Scanning codebase..."]

\* Lines 121-124, after scan_directory returned n files.
Parsing(j, n) ==
    [j EXCEPT !.progress = Whole(30),
              !.message = "Found " \o ToString(n) \o " files to document",
              !.status = "parsing"]

\* Line 132, for index i of n files: 30 + (40 * (i + 1) / len(files)).
FileParsed(j, i, n) ==
    [j EXCEPT !.progress = Frac(30 * n + 40 * (i + 1), n)]

\* Lines 135-138.
Generating(j) ==
    [j EXCEPT !.status = "generating", !.progress = Whole(70),
              !.message = "Generating documentation..."]

\* Lines 149-151.
Saving(j) ==
    [j EXCEPT !.progress = Whole(90), !.message = "Saving documentation..."]

\* Lines 153-165: output/<job_id>/documentation.<ext>
DocFile(job_id, doc_style) ==
    "output/" \o ToString(job_id) \o "/documentation." \o
        (CASE doc_style = "markdown" -> "md"
           [] doc_style = "html" -> "html"
           [] OTHER -> doc_style)

\* Lines 167-171 with the commit torn: status and progress are visible
\* before result_path is assigned.
CompletedTorn(j, doc_file) ==
    [j EXCEPT !.status = "completed", !.progress = Whole(100),
              !.message = "Documentation generated successfully"]

\* Lines 167-171: no await between the assignments.
Completed(j, doc_file) ==
    [j EXCEPT !.status = "completed", !.progress = Whole(100),
              !.message = "Documentation generated successfully",
              !.result_path = doc_file]

\* Lines 175-178: no await between the assignments.
Failed(j, e) ==
    [j EXCEPT !.status = "failed", !.error = e,
              !.message = "Documentation generation failed"]

\* The task's coroutine has returned and its frame (request, files, i) is
\* gone; what stays is the trace of what it did: the id it ran for, the
\* record it wrote to and the exception it caught, if any.
NoRequest == [repo_url |-> NoVal, doc_style |-> NoVal]
Finished(t, e) ==
    [t EXCEPT !.pc = "done", !.request = NoRequest, !.files = 0, !.i = 0,
              !.exc = e]

\* The task without its except clause: the exception leaves the task and
\* the record stays as it was.
HandleExceptionEscapes(w, e) ==
    /\ tasks' = [tasks EXCEPT ![w] = [Finished(@, e) EXCEPT !.pc = "crashed"]]
    /\ running' = 0
    /\ UNCHANGED heap

\* The except clause followed by a retry: the failure is recorded and the
\* task stays at the call that raised.
HandleExceptionRetries(w, e) ==
    /\ heap' = [heap EXCEPT ![tasks[w].job] = Failed(@, e)]
    /\ tasks' = [tasks EXCEPT ![w].exc = e]
    /\ UNCHANGED running

\* except Exception as e (lines 173-178): the handler runs in the step that
\* raised, and the task returns normally.
HandleException(w, e) ==
    /\ heap' = [heap EXCEPT ![tasks[w].job] = Failed(@, e)]
    /\ tasks' = [tasks EXCEPT ![w] = Finished(@, e)]
    /\ running' = 0

\* The for loop of lines 127-133 starting over when it reaches its end.
LoopAgain(t) == [t EXCEPT !.pc = "parse", !.i = 0]

\* The for loop of lines 127-133 is over (or was empty): files and i are not
\* read again.
LoopDone(t) == [t EXCEPT !.pc = "generating", !.files = 0, !.i = 0]

Workers == DOMAIN tasks

\* Lines 102-108: the task starts, looks its record up and marks it.
ProcessStart(w) ==
    /\ running = 0
    /\ tasks[w].pc = "pending"
    /\ LET ref == jobs_db[tasks[w].job_id]
       IN /\ heap' = [heap EXCEPT ![ref] = Scanning(@)]
          /\ tasks' = [tasks EXCEPT ![w].job = ref, ![w].pc = "source"]
    /\ running' = w
    /\ UNCHANGED <<now, jobs_db, jobs, resp, output, others>>

\* Lines 110-113: clone when repo_url is truthy, else take the local path.
ProcessSource(w) ==
    /\ running = w
    /\ tasks[w].pc = "source"
    /\ UNCHANGED <<now, jobs_db, jobs, resp, output, others>>
    /\ IF tasks[w].request.repo_url # NoVal
       THEN \/ /\ tasks' = [tasks EXCEPT ![w].pc = "scan"]
               /\ UNCHANGED <<heap, running>>
            \/ HandleException(w, "clone failed")
       ELSE /\ tasks' = [tasks EXCEPT ![w].pc = "scan"]
            /\ UNCHANGED <<heap, running>>

\* Lines 115-124: scan_directory returns n files, or raises.  With no file
\* the for loop is skipped and the task goes on to line 135.
ProcessScan(w) ==
    /\ running = w
    /\ tasks[w].pc = "scan"
    /\ UNCHANGED <<now, jobs_db, jobs, resp, output, others>>
    /\ \/ \E n \in 0..MaxFiles :
            /\ heap' = [heap EXCEPT ![tasks[w].job] = Parsing(@, n)]
            /\ tasks' = [tasks EXCEPT ![w] =
                           IF n = 0 THEN LoopDone(@)
                           ELSE [@ EXCEPT !.files = n, !.i = 0, !.pc = "parse"]]
            /\ running' = IF n = 0 THEN w ELSE 0
       \/ HandleException(w, "scan failed")

\* Lines 128-133: parse_file(files[i]) returns, or raises.
ProcessParse(w) ==
    /\ running = 0
    /\ tasks[w].pc = "parse"
    /\ UNCHANGED <<now, jobs_db, jobs, resp, output, others>>
    /\ LET i == tasks[w].i
           n == tasks[w].files
       IN \/ /\ heap' = [heap EXCEPT ![tasks[w].job] = FileParsed(@, i, n)]
             /\ tasks' = [tasks EXCEPT ![w] =
                            IF i + 1 < n THEN [@ EXCEPT !.i = i + 1]
                            ELSE LoopDone(@)]
             /\ running' = IF i + 1 < n THEN 0 ELSE w
          \/ HandleException(w, "parse failed")

\* Lines 135-151 without the call of generate_documentation: the task goes
\* on to save what it has.
ProcessGeneratingNoCall(w) ==
    /\ running = w
    /\ tasks[w].pc = "generating"
    /\ heap' = [heap EXCEPT ![tasks[w].job] = Saving(Generating(@))]
    /\ tasks' = [tasks EXCEPT ![w].pc = "save"]
    /\ UNCHANGED running
    /\ UNCHANGED <<now, jobs_db, jobs, resp, output, others>>

\* Lines 135-140: up to the await of generate_documentation.
ProcessGenerating(w) ==
    /\ running = w
    /\ tasks[w].pc = "generating"
    /\ heap' = [heap EXCEPT ![tasks[w].job] = Generating(@)]
    /\ tasks' = [tasks EXCEPT ![w].pc = "generate"]
    /\ running' = 0
    /\ UNCHANGED <<now, jobs_db, jobs, resp, output, others>>

\* Lines 140-151: generate_documentation returns, or raises.
ProcessGenerate(w) ==
    /\ running = 0
    /\ tasks[w].pc = "generate"
    /\ UNCHANGED <<now, jobs_db, jobs, resp, output, others>>
    /\ \/ /\ heap' = [heap EXCEPT ![tasks[w].job] = Saving(@)]
          /\ tasks' = [tasks EXCEPT ![w].pc = "save"]
          /\ running' = w
       \/ HandleException(w, "generate failed")

\* doc_file.write_text(...) by task w (lines 159, 162, 165): the file holds
\* what w wrote, whole or, when the write raised after the file was opened,
\* cut short.
WriteText(w, whole) ==
    DictSet(output, DocFile(tasks[w].job_id, tasks[w].request.doc_style),
            [by |-> w, whole |-> whole])

\* Lines 153-165: mkdir and write_text, which may raise OSError (before the
\* file is opened, or after); the html style awaits render_html before it
\* writes.
ProcessSave(w) ==
    /\ running = w
    /\ tasks[w].pc = "save"
    /\ UNCHANGED <<now, jobs_db, jobs, resp, others>>
    /\ \/ /\ tasks[w].request.doc_style = "html"
          /\ tasks' = [tasks EXCEPT ![w].pc = "render"]
          /\ running' = 0
          /\ UNCHANGED <<heap, output>>
       \/ /\ tasks[w].request.doc_style # "html"
          /\ tasks' = [tasks EXCEPT ![w].pc = "complete"]
          /\ output' = WriteText(w, TRUE)
          /\ UNCHANGED <<heap, running>>
       \/ /\ HandleException(w, "write failed")
          /\ UNCHANGED output
       \/ /\ tasks[w].request.doc_style # "html"
          /\ HandleException(w, "write failed")
          /\ output' = WriteText(w, FALSE)

\* Lines 161-162: render_html returns and the file is written, or one of
\* them raises.
ProcessRender(w) ==
    /\ running = 0
    /\ tasks[w].pc = "render"
    /\ UNCHANGED <<now, jobs_db, jobs, resp, others>>
    /\ \/ /\ tasks' = [tasks EXCEPT ![w].pc = "complete"]
          /\ running' = w
          /\ output' = WriteText(w, TRUE)
          /\ UNCHANGED heap
       \/ /\ HandleException(w, "render failed")
          /\ UNCHANGED output
       \/ /\ HandleException(w, "write failed")
          /\ \/ UNCHANGED output
             \/ output' = WriteText(w, FALSE)

\* Lines 167-171.
ProcessComplete(w) ==
    /\ running = w
    /\ tasks[w].pc = "complete"
    /\ heap' = [heap EXCEPT ![tasks[w].job] =
                   Completed(@, DocFile(tasks[w].job_id, tasks[w].request.doc_style))]
    /\ tasks' = [tasks EXCEPT ![w] = Finished(@, NoVal)]
    /\ running' = 0
    /\ UNCHANGED <<now, jobs_db, jobs, resp, output, others>>

\* ----------------------------------------------------- main.py: the readers
\* The ids a client may ask for: every clock reading.
JobIds == 0..MaxSubmits

\* The status handler over a table with a default: an id it does not hold is
\* answered with a fresh record.
StatusResponseDefault(job_id) ==
    IF job_id \notin DOMAIN jobs_db
    THEN [code |-> 200, body |-> NewJob(job_id)]
    ELSE [code |-> 200, body |-> Job(job_id)]

\* GET /api/status/{job_id}: what the handler answers in the current state.
StatusResponse(job_id) ==
    IF job_id \notin DOMAIN jobs_db
    THEN [code |-> 404, detail |-> "Job not found"]
    ELSE [code |-> 200, body |-> Job(job_id)]

\* The handler only reads; it runs when no task holds the loop.
GetJobStatus(job_id) ==
    /\ running = 0
    /\ StatusResponse(job_id).code \in {200, 404}
    /\ UNCHANGED vars

\* The health handler with the last of the three running statuses missing
\* from its list.
HealthResponseTwoPhases ==
    [status |-> "healthy",
     jobs_count |-> Cardinality(DOMAIN jobs_db),
     active_jobs |-> Cardinality({id \in DOMAIN jobs_db :
                        Job(id).status \in {"scanning", "parsing"}})]

\* GET /health: what the handler answers in the current state.
HealthResponse ==
    [status |-> "healthy",
     jobs_count |-> Cardinality(DOMAIN jobs_db),
     active_jobs |-> Cardinality({id \in DOMAIN jobs_db :
                        Job(id).status \in {"scanning", "parsing", "generating"}})]

HealthCheck ==
    /\ running = 0
    /\ HealthResponse.status = "healthy"
    /\ UNCHANGED vars

\* Path(p).exists() on the output store.
Exists(p) == p \in DOMAIN output

\* Path(p).name: the text after the last "/"; every path the program stores
\* is DocFile(job_id, style), whose last component is documentation.<ext>.
PathName(p) ==
    IF \E id \in JobIds : p = DocFile(id, "html")
    THEN "documentation.html"
    ELSE "documentation.md"

\* The download handler with its status test left out.
DownloadResponseAnyStatus(job_id) ==
    IF job_id \notin DOMAIN jobs_db
    THEN [code |-> 404, detail |-> "Job not found"]
    ELSE LET job == Job(job_id)
         IN IF job.result_path = NoVal \/ ~Exists(job.result_path)
            THEN [code |-> 404, detail |-> "Documentation file not found"]
            ELSE [code |-> 200, path |-> job.result_path,
                  filename |-> PathName(job.result_path),
                  content |-> output[job.result_path]]

\* The download handler with its existence test left out: the FileResponse
\* finds no file when it is sent.
DownloadResponseUnchecked(job_id) ==
    IF job_id \notin DOMAIN jobs_db
    THEN [code |-> 404, detail |-> "Job not found"]
    ELSE LET job == Job(job_id)
         IN IF job.status # "completed"
            THEN [code |-> 400, detail |-> "Documentation not ready"]
            ELSE IF job.result_path = NoVal \/ ~Exists(job.result_path)
            THEN [code |-> 500, detail |-> "File at path does not exist"]
            ELSE [code |-> 200, path |-> job.result_path,
                  filename |-> PathName(job.result_path),
                  content |-> output[job.result_path]]

\* GET /api/download/{job_id}: what the handler answers in the current
\* state; a FileResponse carries the file that is at the path now.
DownloadResponse(job_id) ==
    IF job_id \notin DOMAIN jobs_db
    THEN [code |-> 404, detail |-> "Job not found"]
    ELSE LET job == Job(job_id)
         IN IF job.status # "completed"
            THEN [code |-> 400, detail |-> "Documentation not ready"]
            ELSE IF job.result_path = NoVal \/ ~Exists(job.result_path)
            THEN [code |-> 404, detail |-> "Documentation file not found"]
            ELSE [code |-> 200, path |-> job.result_path,
                  filename |-> PathName(job.result_path),
                  content |-> output[job.result_path]]

\* The handler only reads.
DownloadDocumentation(job_id) ==
    /\ running = 0
    /\ DownloadResponse(job_id).code \in {200, 400, 404}
    /\ UNCHANGED vars

TemplateNames == {"default"}

\* POST /api/templates/{template_name}?job_id=...: what the handler answers
\* when template_manager.apply_template returns (ok) or raises.  The manager
\* is handed the path, never the record.
ApplyTemplateResponse(template_name, job_id, ok) ==
    IF job_id \notin DOMAIN jobs_db
    THEN [code |-> 404, detail |-> "Job not found"]
    ELSE IF Job(job_id).status # "completed"
    THEN [code |-> 400, detail |-> "Documentation not ready"]
    ELSE IF ok
    THEN [code |-> 200, message |-> "Template applied successfully",
          template |-> template_name, path |-> Job(job_id).result_path]
    ELSE [code |-> 500, detail |-> "apply_template failed"]

\* The handler reads the record and writes nothing to it.
ApplyTemplate(template_name, job_id) ==
    /\ running = 0
    /\ \E ok \in BOOLEAN :
          ApplyTemplateResponse(template_name, job_id, ok).code
              \in {200, 400, 404, 500}
    /\ UNCHANGED vars

Next ==
    \/ Tick
    \/ \E request \in ScanRequests : ScanCodebase(request)
    \/ \E w \in Workers : ProcessStart(w)
    \/ \E w \in Workers : ProcessSource(w)
    \/ \E w \in Workers : ProcessScan(w)
    \/ \E w \in Workers : ProcessParse(w)
    \/ \E w \in Workers : ProcessGenerating(w)
    \/ \E w \in Workers : ProcessGenerate(w)
    \/ \E w \in Workers : ProcessSave(w)
    \/ \E w \in Workers : ProcessRender(w)
    \/ \E w \in Workers : ProcessComplete(w)
    \/ \E job_id \in JobIds : GetJobStatus(job_id)
    \/ HealthCheck

Spec == Init /\ [][Next]_vars

\* The collaborator call task t makes in its next step, if any: lines 111,
\* 115, 128, 140 and 161.
CallAt(t) ==
    CASE t.pc = "source" /\ t.request.repo_url # NoVal -> "clone_repository"
      [] t.pc = "scan" -> "scan_directory"
      [] t.pc = "parse" -> "parse_file"
      [] t.pc = "generate" -> "generate_documentation"
      [] t.pc = "render" -> "render_html"
      [] OTHER -> NoVal

\* The status the record has while the call is made (lines 105, 123, 136).
PhaseOf(call) ==
    CASE call \in {"clone_repository", "scan_directory"} -> "scanning"
      [] call = "parse_file" -> "parsing"
      [] call \in {"generate_documentation", "render_html"} -> "generating"
      [] OTHER -> NoVal

\* Any step of task w: the event loop resumes every task that is ready, and
\* every collaborator call it awaits returns or raises.
WorkerStep(w) ==
    /\ w \in Workers
    /\ \/ ProcessStart(w) \/ ProcessSource(w) \/ ProcessScan(w)
       \/ ProcessParse(w) \/ ProcessGenerating(w) \/ ProcessGenerate(w)
       \/ ProcessSave(w) \/ ProcessRender(w) \/ ProcessComplete(w)

\* The steps that change the state: the clock, a submit, a step of a task.
\* The requests that only read leave every variable as it is.
NextFair ==
    \/ Tick
    \/ \E request \in ScanRequests : ScanCodebase(request)
    \/ \E w \in 1..MaxSubmits : WorkerStep(w)

\* The application on an event loop that keeps running.
SpecFair ==
    Init /\ [][NextFair]_vars /\ WF_vars(\E w \in 1..MaxSubmits : WorkerStep(w))

\* ------------------------------------------------ main.py: the output store
\* scan_codebase creates the record and schedules its task together (lines
\* 82-97): the k-th record of the heap is the one the k-th task was
\* scheduled for.
WorkerOf(ref) == ref

\* output/ is a directory of the host: a file the program wrote can be
\* removed from outside the program, at any time between two of its steps.
RemoveOutput(p) ==
    /\ p \in DOMAIN output
    /\ output' = [q \in DOMAIN output \ {p} |-> output[q]]
    /\ UNCHANGED <<now, jobs_db, heap, tasks, running, jobs, resp, others>>

OutputPaths == {DocFile(id, style) : id \in JobIds, style \in {"markdown", "html"}}

NextStore ==
    \/ Next
    \/ \E job_id \in JobIds : DownloadDocumentation(job_id)
    \/ \E template_name \in TemplateNames, job_id \in JobIds :
          ApplyTemplate(template_name, job_id)
    \/ \E p \in OutputPaths : RemoveOutput(p)

\* The application together with what the host does to its output store.
SpecStore == Init /\ [][NextStore]_vars

\* ------------------------------------------------------- main_simple.py
\* uuid.uuid4(): a prefix (the first 8 characters of its text) and the rest.
Uuid4 == (1..NumPrefix) \X (1..NumSuffix)

\* str(uuid.uuid4())[:8]
Prefix8(u) == u[1]

SimpleRequests ==
    [repo_url : {NoVal, "https://example.com/x.git"},
     local_path : {NoVal, "./src"},
     doc_style : {"markdown"}]

\* Python's `a or b` on Optional[str].
PyOr(a, b) == IF a # NoVal THEN a ELSE b

\* Lines 124-134: the dict as it stands when the handler returns; it has the
\* keys job_id, status, created_at, request and result, and no others.
SimpleJob(job_id, created_at, request) ==
    [job_id |-> job_id, status |-> "completed", created_at |-> created_at,
     request |-> request,
     result |-> "Documentation generated for " \o
                   PyOr(request.repo_url, request.local_path)]

\* POST /api/scan of main_simple.py (lines 121-136): no await in the body.
ScanCodebaseSimple(request, u) ==
    /\ LET job_id == Prefix8(u)
       IN /\ jobs' = DictSet(jobs, job_id, SimpleJob(job_id, now, request))
          /\ resp' = [op |-> "scan", code |-> 200, job_id |-> job_id,
                      status |-> "started"]
    /\ UNCHANGED <<now, jobs_db, heap, tasks, running, output, others>>

\* The clock of main_simple.py (created_at), numbered like Tick's.
TickSimple ==
    /\ now < MaxSubmits
    /\ \E id \in DOMAIN jobs : jobs[id].created_at = now
    /\ now' = now + 1
    /\ UNCHANGED <<jobs_db, heap, tasks, running, jobs, resp, output, others>>

\* GET /api/status/{job_id} of main_simple.py (lines 142-146).
StatusResponseSimple(job_id) ==
    IF job_id \notin DOMAIN jobs
    THEN [code |-> 404, detail |-> "Job not found"]
    ELSE [code |-> 200, body |-> jobs[job_id]]

GetJobStatusSimple(job_id) ==
    /\ StatusResponseSimple(job_id).code \in {200, 404}
    /\ UNCHANGED vars

\* GET /api/jobs (lines 138-140): list(jobs.values()), as a set of records.
JobsResponseSimple == {jobs[id] : id \in DOMAIN jobs}

GetJobsSimple ==
    /\ Cardinality(JobsResponseSimple) <= NumPrefix
    /\ UNCHANGED vars

NextSimple ==
    \/ TickSimple
    \/ \E request \in SimpleRequests, u \in Uuid4 : ScanCodebaseSimple(request, u)
    \/ \E job_id \in 1..NumPrefix : GetJobStatusSimple(job_id)
    \/ GetJobsSimple

SpecSimple == Init /\ [][NextSimple]_vars

\* ------------------------------- main.py 110-119 and scanner.py 19-33
\* Optional[str]: None, or a text.  A text is the sequence of the pieces
\* between its "/" (the empty text has no piece), and a piece is a sequence
\* of tokens, of which ".git" is one.
None == [some |-> FALSE, text |-> <<>>]
Str(t) == [some |-> TRUE, text |-> t]

\* Python's truth value of an Optional[str]: None and "" are false.
PyTruthy(o) == o.some /\ o.text # <<>>

\* text.split('/'): the pieces; the empty text splits into one empty piece.
Split(t) == IF t = <<>> THEN << <<>> >> ELSE t

\* piece.replace('.git', ''): every occurrence is dropped.
RECURSIVE ReplaceGit(_)
ReplaceGit(piece) ==
    IF piece = <<>> THEN <<>>
    ELSE IF Head(piece) = ".git" THEN ReplaceGit(Tail(piece))
    ELSE <<Head(piece)>> \o ReplaceGit(Tail(piece))

\* Line 21 of scanner.py: repos/<last piece of the url without ".git">.
RepoDir(url) == <<"repos", ReplaceGit(Split(url)[Len(Split(url))])>>

\* Path(local_path or "."), as the sequence of its names.
LocalDir(local_path) ==
    IF PyTruthy(local_path) THEN local_path.text ELSE << <<".">> >>

UrlA == << <<"https:">>, <<>>, <<"a.example">>, <<"alice">>, <<"app", ".git">> >>
UrlB == << <<"https:">>, <<>>, <<"b.example">>, <<"bob">>, <<"app", ".git">> >>
UrlC == << <<"https:">>, <<>>, <<"a.example">>, <<"alice">>, <<"lib", ".git">> >>

\* The two fields of ScanRequest that choose the source (lines 42-43).
SourceRequests ==
    [repo_url : {None, Str(<<>>), Str(UrlA), Str(UrlB), Str(UrlC)},
     local_path : {None, Str(<<>>), Str(<< <<"src">> >>)}]

\* Lines 110-113 with the local path taking precedence over the url.
SelectLocalFirst(request) ==
    IF PyTruthy(request.local_path) THEN "local_path"
    ELSE IF PyTruthy(request.repo_url) THEN "clone_repository"
    ELSE "local_path"

\* Lines 110-113: which branch the task takes.
Select(request) ==
    IF PyTruthy(request.repo_url) THEN "clone_repository" ELSE "local_path"

\* Lines 110-119 of one task, which run without releasing the event loop
\* (clone_repository and scan_directory contain no await): the source is
\* chosen, cloned if its directory is not there yet, and scanned.  `holds`
\* is the url whose clone the scanned directory contains.
SourceAndScan(request) ==
    /\ Len(scans) < MaxSubmits
    /\ UNCHANGED notSource
    /\ IF Select(request) = "clone_repository"
       THEN LET url == request.repo_url.text
                repo_dir == RepoDir(url)
            IN IF repo_dir \in DOMAIN repos
               THEN /\ scans' = Append(scans,
                          [request |-> request, via |-> "clone_repository",
                           cloned |-> FALSE, failed |-> FALSE,
                           code_path |-> repo_dir, holds |-> Str(repos[repo_dir])])
                    /\ UNCHANGED repos
               ELSE \/ /\ repos' = DictSet(repos, repo_dir, url)
                       /\ scans' = Append(scans,
                             [request |-> request, via |-> "clone_repository",
                              cloned |-> TRUE, failed |-> FALSE,
                              code_path |-> repo_dir, holds |-> Str(url)])
                    \/ /\ scans' = Append(scans,
                             [request |-> request, via |-> "clone_repository",
                              cloned |-> FALSE, failed |-> TRUE,
                              code_path |-> <<>>, holds |-> None])
                       /\ UNCHANGED repos
       ELSE /\ scans' = Append(scans,
                  [request |-> request, via |-> "local_path",
                   cloned |-> FALSE, failed |-> FALSE,
                   code_path |-> LocalDir(request.local_path), holds |-> None])
            /\ UNCHANGED repos

NextSource == \E request \in SourceRequests : SourceAndScan(request)

\* The tasks' source steps one after another.
SpecSource == Init /\ [][NextSource]_vars

\* ------------------------------------------ scanner.py: scan_directory
\* A file or directory name: the text before its last "." and the text after
\* it (ext is "" for a name without a dot).
N(stem, ext) == [stem |-> stem, ext |-> ext]

\* The patterns in use, by shape: a name without wildcard, "*.<ext>", "*.*".
Lit(stem, ext) == [kind |-> "literal", name |-> N(stem, ext)]
StarDot(ext) == [kind |-> "*.ext", ext |-> ext]
StarDotStar == [kind |-> "*.*"]

\* fnmatch.fnmatch(name, pattern) for one name.
FnMatchName(name, pattern) ==
    CASE pattern.kind = "literal" -> name = pattern.name
      [] pattern.kind = "*.ext" -> name.ext = pattern.ext
      [] pattern.kind = "*.*" -> name.ext # ""

\* fnmatch.fnmatch(str(path), pattern) for the text of a whole path, its
\* names joined by "/" ("*" also matches "/").
FnMatchPath(path, pattern) ==
    CASE pattern.kind = "literal" -> path = <<pattern.name>>
      [] pattern.kind = "*.ext" -> path # <<>> /\ path[Len(path)].ext = pattern.ext
      [] pattern.kind = "*.*" -> \E k \in DOMAIN path : path[k].ext # ""

\* Lines 13-17.
supported_extensions ==
    {"py", "js", "jsx", "ts", "tsx", "java", "cpp", "c", "h", "hpp", "cs",
     "go", "rs", "rb", "php", "swift", "kt", "scala", "r", "m", "sql", "sh",
     "bash", "ps1", "yaml", "yml", "json"}

\* Lines 42-43 and 45-50: the defaults taken for an empty argument.
DefaultFilePatterns == {StarDotStar}
DefaultExcludePatterns ==
    {Lit("node_modules", ""), Lit("__pycache__", ""), Lit("", "git"),
     Lit("dist", ""), Lit("build", ""), Lit("target", ""), Lit("out", ""),
     Lit("", "venv"), Lit("venv", ""), Lit("env", ""), Lit("", "env"),
     StarDot("pyc"), StarDot("pyo"), StarDot("pyd"), Lit("", "DS_Store"),
     Lit("Thumbs", "db")}

\* Lines 72-77.
MatchesPatterns(filename, patterns) ==
    \E pattern \in patterns : FnMatchName(filename, pattern)

\* Lines 79-93: some part of the path matches a pattern, or the whole text
\* does.  `root` is not looked at: the parts are those of the path given.
ShouldExclude(path, root, exclude_patterns) ==
    \E pattern \in exclude_patterns :
        \/ \E k \in DOMAIN path : FnMatchName(path[k], pattern)
        \/ FnMatchPath(path, pattern)

\* The names in the order of their texts, for sorted().
NameOrder ==
    <<N("app", ""), N("build", ""), N("gen", "py"), N("lib", ""),
      N("main", "py"), N("mod", "pyc"), N("notes", "txt"), N("repos", ""),
      N("src", ""), N("util", "js")>>
Rank(name) == CHOOSE k \in DOMAIN NameOrder : NameOrder[k] = name

\* Path.__lt__: the parts compared one by one, a prefix first.
RECURSIVE PathLess(_, _)
PathLess(p, q) ==
    IF q = <<>> THEN FALSE
    ELSE IF p = <<>> THEN TRUE
    ELSE IF Head(p) = Head(q) THEN PathLess(Tail(p), Tail(q))
    ELSE Rank(Head(p)) < Rank(Head(q))

\* sorted(files)
RECURSIVE Sorted(_)
Sorted(S) ==
    IF S = {} THEN <<>>
    ELSE LET least == CHOOSE p \in S : \A q \in S \ {p} : PathLess(p, q)
         IN <<least>> \o Sorted(S \ {least})

\* Lines 35-70.  `tree` is the set of files below `directory`, each as the
\* sequence of names from the directory down.  os.walk does not descend into
\* a directory whose name is excluded (line 56); a file is kept when its
\* name matches a file pattern, the path Path(root) / filename is not
\* excluded, and its suffix is supported.
ScanDirectoryFiles(directory, tree, file_patterns, exclude_patterns) ==
    LET fps == IF file_patterns = {} THEN DefaultFilePatterns ELSE file_patterns
        eps == IF exclude_patterns = {} THEN DefaultExcludePatterns
               ELSE exclude_patterns
        Walked(rel) ==
            \A k \in 1..(Len(rel) - 1) : ~ShouldExclude(<<rel[k]>>, <<>>, eps)
    IN {directory \o rel : rel \in
          {r \in tree :
              /\ Walked(r)
              /\ MatchesPatterns(r[Len(r)], fps)
              /\ ~ShouldExclude(directory \o r, directory, eps)
              /\ r[Len(r)].ext \in supported_extensions}}

ScanDirectoryResult(directory, tree, file_patterns, exclude_patterns) ==
    Sorted(ScanDirectoryFiles(directory, tree, file_patterns, exclude_patterns))

\* The directories scanned: ".", whose name Path drops from the paths below
\* it, and directories under repos/ and elsewhere.
Directories ==
    {<<>>, <<N("src", "")>>, <<N("repos", ""), N("app", "")>>,
     <<N("repos", ""), N("build", "")>>}

\* The files a tree may hold.
TreeFiles ==
    {<<N("main", "py")>>, <<N("notes", "txt")>>, <<N("mod", "pyc")>>,
     <<N("lib", ""), N("util", "js")>>, <<N("build", ""), N("gen", "py")>>}
Trees == {t \in SUBSET TreeFiles : Cardinality(t) <= MaxTree}

FilePatternLists == {{}, {StarDot("py")}, {StarDot("py"), StarDot("js")}}
ExcludePatternLists == {{}, {Lit("build", "")}, {StarDot("js")}}

\* One call of scan_directory, the first.
ScanDirectory(directory, tree, file_patterns, exclude_patterns) ==
    /\ walk.op = "none"
    /\ walk' = [op |-> "scan_directory", directory |-> directory, tree |-> tree,
                file_patterns |-> file_patterns,
                exclude_patterns |-> exclude_patterns,
                files |-> ScanDirectoryResult(directory, tree, file_patterns,
                                              exclude_patterns)]
    /\ UNCHANGED notWalk

NextWalk ==
    \E directory \in Directories, tree \in Trees,
       file_patterns \in FilePatternLists,
       exclude_patterns \in ExcludePatternLists :
        ScanDirectory(directory, tree, file_patterns, exclude_patterns)

SpecWalk == Init /\ [][NextWalk]_vars

\* --------------------- personal-ai-assistant-dashboard: main_ollama.py
\* ChatRequest bodies.  session_id is absent (None), empty, or names a
\* session; model, temperature, max_tokens and system_prompt only travel to
\* Ollama and back.
SessionIds == {NoVal, "", "s1"}
ChatRequests == [message : {"hello", "bye"}, session_id : SessionIds,
                 model : {"llama3.2:1b"}]

\* str(uuid.uuid4()): a value no session has yet; the values are named in
\* the order the requests draw them.
UuidNames == <<"u1", "u2", "u3", "u4">>
Uuids == {UuidNames[n] : n \in 1..MaxChats}
Uuid4Chat == UuidNames[Len(chats) + 1]

\* Lines 78-79: `not request.session_id` holds for None and for "".
SessionOf(request, u) ==
    IF request.session_id = NoVal \/ request.session_id = ""
    THEN u ELSE request.session_id

\* Lines 82-83 and 85-89, 127-131: conversations[session_id].append(...) on
\* the list created when the session is new.  The timestamp of a message is
\* read by no handler and is left out.
Message(role, content) == [role |-> role, content |-> content]
Appended(convs, session_id, m) ==
    DictSet(convs, session_id,
            Append(IF session_id \in DOMAIN convs THEN convs[session_id]
                   ELSE <<>>, m))

\* What `await client.post(...)` and the lines up to 125 can come to: a
\* response with status 200 whose JSON has a "response" key or has none, a
\* response with another status, httpx.ConnectError, or any other exception
\* (a timeout, a body that is not JSON).
OllamaOutcomes ==
    {[kind |-> "response", status_code |-> 200, result |-> "reply"],
     [kind |-> "response", status_code |-> 200, result |-> NoVal],
     [kind |-> "response", status_code |-> 500, result |-> NoVal],
     [kind |-> "ConnectError"],
     [kind |-> "Exception", e |-> "ReadTimeout"]}

\* Of a request whose call of Ollama has not come back.
NoOutcome == [kind |-> "none"]

\* Lines 120-125 without the handlers: the exception leaves the inner try.
AiResponseUnhandled(request, o) ==
    IF o.kind = "response"
    THEN IF o.status_code = 200
         THEN [raised |-> FALSE,
               text |-> IF o.result = NoVal THEN <<"No response from model">>
                        ELSE <<o.result>>]
         ELSE [raised |-> FALSE,
               text |-> <<"Error: Ollama returned status", o.status_code>>]
    ELSE [raised |-> TRUE, text |-> <<o.kind>>]
\* Lines 113-125: ai_response.
AiResponse(request, o) ==
    IF o.kind = "response"
    THEN IF o.status_code = 200
         THEN [raised |-> FALSE,
               text |-> IF o.result = NoVal THEN <<"No response from model">>
                        ELSE <<o.result>>]
         ELSE [raised |-> FALSE,
               text |-> <<"Error: Ollama returned status", o.status_code>>]
    ELSE IF o.kind = "ConnectError"
    THEN [raised |-> FALSE,
          text |-> <<"Demo response (Ollama not connected)", request.message,
                     request.model>>]
    ELSE [raised |-> FALSE, text |-> <<"Error connecting to Ollama:", o.e>>]

\* Lines 77-108: the session is chosen and created if new, the user message
\* is appended, and the handler suspends on the call of Ollama.  user_at is
\* the place the message took in its list.
ChatBegin(request) ==
    /\ Len(chats) < MaxChats
    /\ LET session_id == SessionOf(request, Uuid4Chat)
           convs == Appended(conversations, session_id,
                             Message("user", request.message))
       IN /\ conversations' = convs
          /\ chats' = Append(chats,
                [request |-> request, session_id |-> session_id,
                 pc |-> "post", user_at |-> Len(convs[session_id]),
                 outcome |-> NoOutcome, assistant_at |-> 0,
                 status_code |-> 0, response |-> NoVal])
    /\ UNCHANGED <<notChat, chatResp>>

\* Lines 108-141: the call of Ollama returns or raises, the assistant message
\* is appended and the response is sent; an exception that reaches line 139
\* becomes HTTP 500.
ChatEnd(k, o) ==
    /\ k \in DOMAIN chats
    /\ chats[k].pc = "post"
    /\ LET c == chats[k]
           ai == AiResponse(c.request, o)
           convs == Appended(conversations, c.session_id,
                             Message("assistant", ai.text))
       IN IF ai.raised
          THEN /\ chats' = [chats EXCEPT ![k].pc = "done",
                                         ![k].outcome = o,
                                         ![k].status_code = 500]
               /\ UNCHANGED conversations
          ELSE /\ conversations' = convs
               /\ chats' = [chats EXCEPT ![k].pc = "done",
                               ![k].outcome = o,
                               ![k].assistant_at = Len(convs[c.session_id]),
                               ![k].status_code = 200,
                               ![k].response = ai.text]
    /\ UNCHANGED <<notChat, chatResp>>

\* Lines 155-162.
ConversationResponse(session_id) ==
    IF session_id \notin DOMAIN conversations
    THEN [op |-> "get_conversation", status_code |-> 404,
          detail |-> "Conversation not found"]
    ELSE [op |-> "get_conversation", status_code |-> 200,
          session_id |-> session_id, messages |-> conversations[session_id]]

GetConversation(session_id) ==
    /\ chatResp' = ConversationResponse(session_id)
    /\ UNCHANGED <<notChat, conversations, chats>>

ChatSessions == (SessionIds \ {NoVal}) \cup Uuids

NextChat ==
    \/ \E request \in ChatRequests : ChatBegin(request)
    \/ \E k \in 1..MaxChats, o \in OllamaOutcomes : ChatEnd(k, o)
    \/ \E session_id \in ChatSessions : GetConversation(session_id)

\* main_ollama.py: chat requests on one event loop, each suspended on its
\* call of Ollama while others are served.
SpecChat == Init /\ [][NextChat]_vars

\* ------------------- personal-ai-assistant-dashboard: main_simple.py
\* Lines 55-83: the same handler with the demo response in place of the
\* call; it contains no await and runs from its first line to its return.
ChatSimple(request) ==
    /\ Len(chats) < MaxChats
    /\ LET session_id == SessionOf(request, Uuid4Chat)
           response == <<"This is a demo response to:", request.message>>
           first == Appended(conversations, session_id,
                             Message("user", request.message))
           convs == Appended(first, session_id,
                             Message("assistant", response))
       IN /\ conversations' = convs
          /\ chats' = Append(chats,
                [request |-> request, session_id |-> session_id,
                 pc |-> "done", user_at |-> Len(first[session_id]),
                 outcome |-> NoOutcome,
                 assistant_at |-> Len(convs[session_id]),
                 status_code |-> 200, response |-> response])
    /\ UNCHANGED <<notChat, chatResp>>

NextChatSimple ==
    \/ \E request \in ChatRequests : ChatSimple(request)
    \/ \E session_id \in ChatSessions : GetConversation(session_id)

SpecChatSimple == Init /\ [][NextChatSimple]_vars

\* ------------------------------------------- local-speech-to-text: main.py
\* Line 43.
available_models == {"tiny", "base", "small", "medium", "large"}

\* Lines 45-55, WhisperManager.load_model(model_name): whisper.load_model
\* returns the model of that name (written here as the name) or raises, as
\* it does for a name whisper has no model for; `ok` says whether it
\* returns for a name it knows.  The exception is logged and False returned.
ManagerLoad(m, model_name, ok) ==
    IF model_name \in available_models /\ ok
    THEN [manager |-> [model |-> model_name, model_name |-> model_name],
          success |-> TRUE]
    ELSE [manager |-> m, success |-> FALSE]

\* Form fields and file of POST /api/transcribe: `model` is any string, and
\* an upload may carry no filename.
TranscribeRequests == [model : {"base", "tiny", "huge"},
                       filename : {"a.wav", NoVal}]

\* tempfile.NamedTemporaryFile names, in the order they are made.
TmpNames == <<"tmp1", "tmp2", "tmp3", "tmp4">>
TranscriptionIds == {UuidNames[n] : n \in 1..MaxTranscribes}

\* Lines 93-96.
StartupEvent(ok) ==
    /\ ~serving
    /\ serving' = TRUE
    /\ whisper_manager' = ManagerLoad(whisper_manager, "base", ok).manager
    /\ UNCHANGED <<notSpeech, transcriptions_db, tmp, reqs, sttResp>>

\* Lines 545-550: the id is drawn and the temporary file is made, and the
\* handler suspends reading the upload.  Path(None) raises for an upload
\* without a filename, before any file is made.
TranscribeBegin(request) ==
    /\ serving
    /\ Len(reqs) < MaxTranscribes
    /\ LET transcription_id == UuidNames[Len(reqs) + 1]
           tmp_file == TmpNames[Len(reqs) + 1]
       IN IF request.filename = NoVal
          THEN /\ reqs' = Append(reqs,
                     [transcription_id |-> transcription_id,
                      request |-> request, pc |-> "done",
                      tmp_file |-> NoVal, failed_at |-> "filename",
                      load |-> "none", used |-> NoVal, status_code |-> 500])
               /\ UNCHANGED tmp
          ELSE /\ reqs' = Append(reqs,
                     [transcription_id |-> transcription_id,
                      request |-> request, pc |-> "read",
                      tmp_file |-> tmp_file, failed_at |-> "none",
                      load |-> "none", used |-> NoVal, status_code |-> 0])
               /\ tmp' = tmp \cup {tmp_file}
    /\ UNCHANGED <<notSpeech, serving, whisper_manager, transcriptions_db,
                   sttResp>>

\* Lines 555-564 with WhisperManager.transcribe (57-71): the requested model
\* is loaded if it is not the current one, the default one if none is
\* loaded, and the loaded model transcribes; a manager without a model
\* raises on self.model.transcribe.  `load` tells what became of the load of
\* the requested model, `used` the model that transcribed.
Transcribed(m, model, load_ok, default_ok, transcribe_ok) ==
    LET first == IF model # m.model_name
                 THEN ManagerLoad(m, model, load_ok)
                 ELSE [manager |-> m, success |-> TRUE]
        second == IF first.manager.model = NoVal
                  THEN ManagerLoad(first.manager, "base", default_ok).manager
                  ELSE first.manager
    IN [manager |-> second,
        load |-> IF model = m.model_name THEN "none"
                 ELSE IF first.success THEN "loaded" ELSE "failed",
        used |-> second.model,
        raised |-> second.model = NoVal \/ ~transcribe_ok]

\* Lines 570-577: the stored record; the result of whisper is written as the
\* file and the model it came from.  created_at is read by no handler
\* modelled here and is left out.
Record(transcription_id, tmp_file, used) ==
    [id |-> transcription_id, text |-> <<"text of", tmp_file, "by", used>>,
     language |-> "en", segments |-> <<>>, duration |-> 0]

\* The record stored although the transcription raised.
StoredAlways(db, raised, transcription_id, record) ==
    DictSet(db, transcription_id, record)
\* Lines 559-577: transcriptions_db after the call of transcribe.
Stored(db, raised, transcription_id, record) ==
    IF raised THEN db ELSE DictSet(db, transcription_id, record)

\* Lines 550-583, from the read of the upload to the response.  An exception
\* of file.read() or tmp_file.write() leaves the `with` block, which closes
\* the file and (delete=False) keeps it; one of transcribe skips os.unlink.
TranscribeEnd(k, read_ok, load_ok, default_ok, transcribe_ok) ==
    /\ k \in DOMAIN reqs
    /\ reqs[k].pc = "read"
    /\ IF ~read_ok
       THEN /\ reqs' = [reqs EXCEPT ![k].pc = "done",
                                    ![k].failed_at = "read",
                                    ![k].status_code = 500]
            /\ UNCHANGED <<whisper_manager, transcriptions_db, tmp>>
       ELSE LET r == reqs[k]
                t == Transcribed(whisper_manager, r.request.model, load_ok,
                                 default_ok, transcribe_ok)
            IN /\ whisper_manager' = t.manager
               /\ transcriptions_db' =
                      Stored(transcriptions_db, t.raised, r.transcription_id,
                             Record(r.transcription_id, r.tmp_file, t.used))
               /\ tmp' = IF t.raised THEN tmp ELSE tmp \ {r.tmp_file}
               /\ reqs' = [reqs EXCEPT
                      ![k].pc = "done",
                      ![k].load = t.load,
                      ![k].used = IF t.raised THEN NoVal ELSE t.used,
                      ![k].failed_at = IF t.raised THEN "transcribe" ELSE "none",
                      ![k].status_code = IF t.raised THEN 500 ELSE 200]
    /\ UNCHANGED <<notSpeech, serving, sttResp>>

\* Lines 615-625.
LoadModel(model_name, ok) ==
    /\ serving
    /\ IF model_name \notin available_models
       THEN /\ sttResp' = [op |-> "load_model", model_name |-> model_name,
                           status_code |-> 400]
            /\ UNCHANGED whisper_manager
       ELSE LET l == ManagerLoad(whisper_manager, model_name, ok)
            IN /\ whisper_manager' = l.manager
               /\ sttResp' = [op |-> "load_model", model_name |-> model_name,
                              status_code |-> IF l.success THEN 200 ELSE 500]
    /\ UNCHANGED <<notSpeech, serving, transcriptions_db, tmp, reqs>>

\* Lines 634-639.
TranscriptionResponse(transcription_id) ==
    IF transcription_id \notin DOMAIN transcriptions_db
    THEN [op |-> "get_transcription", id |-> transcription_id,
          status_code |-> 404]
    ELSE [op |-> "get_transcription", id |-> transcription_id,
          status_code |-> 200, body |-> transcriptions_db[transcription_id]]

GetTranscription(transcription_id) ==
    /\ serving
    /\ sttResp' = TranscriptionResponse(transcription_id)
    /\ UNCHANGED <<notSpeech, serving, whisper_manager, transcriptions_db,
                   tmp, reqs>>

NextSpeech ==
    \/ \E ok \in BOOLEAN : StartupEvent(ok)
    \/ \E request \in TranscribeRequests : TranscribeBegin(request)
    \/ \E k \in 1..MaxTranscribes,
          read_ok, load_ok, default_ok, transcribe_ok \in BOOLEAN :
           TranscribeEnd(k, read_ok, load_ok, default_ok, transcribe_ok)
    \/ \E model_name \in {"tiny", "base", "huge"}, ok \in BOOLEAN :
           LoadModel(model_name, ok)
    \/ \E transcription_id \in TranscriptionIds \cup {"unknown"} :
           GetTranscription(transcription_id)

SpecSpeech == Init /\ [][NextSpeech]_vars

\* ------------------------------------ ai-image-classifier: main_simple.py
\* The simulated analysis (lines 254-265): random tags, counts and scene.
Analyses ==
    {[tags |-> <<"sunset", "beach", "dog">>, objects_detected |-> 5,
      faces_detected |-> 0, scene |-> "outdoor"],
     [tags |-> <<"city", "people", "car", "building", "tree", "sky">>,
      objects_detected |-> 15, faces_detected |-> 5, scene |-> "urban"]}

\* Lines 250-274.  uploaded_at is read by no handler and is left out.
UploadPhoto(filename, u, a) ==
    /\ Len(photos) < MaxPhotos
    /\ photos' = Append(photos,
           [id |-> Prefix8(u), filename |-> filename, tags |-> a.tags,
            objects_detected |-> a.objects_detected,
            faces_detected |-> a.faces_detected, scene |-> a.scene])
    /\ UNCHANGED <<notPhoto, photoResp>>

\* list[start:] of Python: a negative start counts from the end, and a start
\* outside the list is clamped to it.
SliceFrom(list, start) ==
    LET n == Len(list)
        from == IF start < 0 THEN (IF n + start < 0 THEN 0 ELSE n + start)
                ELSE (IF start > n THEN n ELSE start)
    IN SubSeq(list, from + 1, n)

\* Lines 276-278: photos[-limit:] if photos else [].
PhotosResponse(limit) ==
    IF photos # <<>> THEN SliceFrom(photos, 0 - limit) ELSE <<>>

\* `count` is the number of photos uploaded when the request was served.
GetPhotos(limit) ==
    /\ photoResp' = [op |-> "get_photos", limit |-> limit,
                     count |-> Len(photos), body |-> PhotosResponse(limit)]
    /\ UNCHANGED <<notPhoto, photos>>

NextPhoto ==
    \/ \E filename \in {"a.jpg", "b.jpg"}, u \in Uuid4, a \in Analyses :
           UploadPhoto(filename, u, a)
    \/ \E limit \in 0..(MaxPhotos + 1) : GetPhotos(limit)

SpecPhoto == Init /\ [][NextPhoto]_vars

\* =================================================================== claims
IsSet(v) == v # NoVal
Suspended == {"parse", "generate", "render"}

\* C1. Every accepted submit returns a job id that differs from every id
\* issued before: no two background tasks are ever started for the same id
\* (and so no submit replaces an entry of the job table).
C1_UniqueJobIds ==
    \A a, b \in DOMAIN tasks :
        a # b => tasks[a].job_id # tasks[b].job_id

\* C2. A status poll never sees a torn terminal transition: whatever
\* GET /api/status answers, in any state, a record that says completed has
\* its result_path set and a record that says failed has its error set.
C2_NoTornTerminal ==
    \A id \in JobIds :
        LET r == StatusResponse(id)
        IN r.code = 200 =>
             /\ r.body.status = "completed" => IsSet(r.body.result_path)
             /\ r.body.status = "failed" => IsSet(r.body.error)

\* C2, witness: a poll answers a completed record while the task of another
\* record is suspended in the middle of its run.
C2_Witness ==
    /\ running = 0
    /\ \E id \in JobIds :
          /\ StatusResponse(id).code = 200
          /\ StatusResponse(id).body.status = "completed"
          /\ IsSet(StatusResponse(id).body.result_path)
    /\ \E w \in DOMAIN tasks :
          /\ tasks[w].pc \in Suspended
          /\ heap[tasks[w].job].status \in NonTerminal

\* C3. Terminal states are absorbing: once the record of an id is completed
\* or failed, no step changes any field of the record of that id.
C3_TerminalAbsorbing ==
    [][\A id \in DOMAIN jobs_db :
          Job(id).status \in Terminal => heap'[jobs_db'[id]] = Job(id)]_vars

\* C4. Every job whose status is completed has progress == 100, its result
\* set and its error unset (here for the records of main_simple.py, whose
\* result field is `result`).
C4_CompletedShape ==
    \A id \in DOMAIN jobs :
        LET j == jobs[id]
        IN j.status = "completed" =>
             /\ "progress" \in DOMAIN j /\ j.progress = 100
             /\ "result" \in DOMAIN j /\ IsSet(j.result)
             /\ "error" \in DOMAIN j => ~IsSet(j.error)

\* C4 for the records of main.py.
C4_CompletedShapeMain ==
    \A id \in DOMAIN jobs_db :
        Job(id).status = "completed" =>
            /\ FracEq(Job(id).progress, Whole(100))
            /\ IsSet(Job(id).result_path)
            /\ ~IsSet(Job(id).error)

\* C5. Every job whose status is failed has its error set and its
\* result_path unset.
C5_FailedShape ==
    \A id \in DOMAIN jobs_db :
        Job(id).status = "failed" =>
            IsSet(Job(id).error) /\ ~IsSet(Job(id).result_path)

\* C6. While a job's status is non-terminal both result_path and error are
\* absent; once it is terminal exactly one of them is present.
C6_ResultErrorExclusive ==
    \A id \in DOMAIN jobs_db :
        /\ Job(id).status \in NonTerminal =>
              ~IsSet(Job(id).result_path) /\ ~IsSet(Job(id).error)
        /\ Job(id).status \in Terminal =>
              IsSet(Job(id).result_path) # IsSet(Job(id).error)

\* C7. For every job, progress == 100 if and only if status == completed.
C7_HundredIffCompleted ==
    \A id \in DOMAIN jobs_db :
        FracEq(Job(id).progress, Whole(100)) <=> Job(id).status = "completed"

\* C8. The progress of every job lies in [0, 100], and no step lowers the
\* progress of the record of a job that is running.
C8_ProgressMonotone ==
    [][\A id \in DOMAIN jobs_db :
          LET before == Job(id)
              after == heap'[jobs_db'[id]]
          IN /\ FracLeq(Whole(0), after.progress)
             /\ FracLeq(after.progress, Whole(100))
             /\ before.status \in NonTerminal =>
                   FracLeq(before.progress, after.progress)]_vars

\* C9. Once a submit has returned an id, a status call on that id shows a
\* non-terminal status: submit never hands back the id of a job that is
\* already completed (here for main_simple.py, where nothing runs between
\* the submit and the status call).
C9_SubmittedJobNotTerminal ==
    resp.op = "scan" =>
        LET r == StatusResponseSimple(resp.job_id)
        IN /\ r.code = 200
           /\ r.body.status \notin Terminal

C12_UnknownStatusNotFound ==
    /\ [](\A id \in JobIds :
             id \notin DOMAIN jobs_db =>
                 /\ StatusResponse(id).code = 404
                 /\ StatusResponse(id).detail = "Job not found"
                 /\ "body" \notin DOMAIN StatusResponse(id))
    /\ [][Len(tasks') = Len(tasks) => jobs_db' = jobs_db]_vars

\* C12, witness: the loop is free for a status call, the table holds a
\* record that is running, and some id a client may ask for is not in it.
C12_Witness ==
    /\ running = 0
    /\ \E id \in JobIds : id \notin DOMAIN jobs_db /\ StatusResponse(id).code = 404
    /\ \E id \in JobIds : id \in DOMAIN jobs_db /\ Job(id).status = "parsing"

\* C12 for main_simple.py: the same answer from its table.
C12_UnknownStatusNotFoundSimple ==
    \A id \in 1..NumPrefix :
        id \notin DOMAIN jobs =>
            /\ StatusResponseSimple(id).code = 404
            /\ "body" \notin DOMAIN StatusResponseSimple(id)

\* C13. A download of an id the table does not hold is answered 404 "Job not
\* found"; a download of a known job whose status is not completed, running
\* or failed, is answered 400 and carries no file.
C13_DownloadNotReady ==
    \A id \in JobIds :
        LET r == DownloadResponse(id)
        IN /\ id \notin DOMAIN jobs_db =>
                 r.code = 404 /\ r.detail = "Job not found"
           /\ (id \in DOMAIN jobs_db /\ Job(id).status # "completed") =>
                 /\ r.code = 400
                 /\ "path" \notin DOMAIN r
                 /\ "content" \notin DOMAIN r

\* C13, witness: a download can be handled while one job is running and
\* another has failed with its write cut short, so that a file of the
\* failed job is on the store; both are answered 400.
C13_Witness ==
    /\ running = 0
    /\ \E a, b \in DOMAIN jobs_db :
          /\ Job(a).status \in NonTerminal
          /\ Job(b).status = "failed"
          /\ Exists(DocFile(b, "markdown"))
          /\ DownloadResponse(a).code = 400
          /\ DownloadResponse(b).code = 400

\* C14. A download of a completed job whose file is no longer on the store is
\* answered 404 "Documentation file not found"; and a step in which no task
\* moves (a download, a removal from the store) changes no record and no
\* entry of the table: the job stays completed with its result_path.
C14_ResultMissing ==
    /\ [](\A id \in DOMAIN jobs_db :
             (Job(id).status = "completed" /\ ~Exists(Job(id).result_path)) =>
                 /\ DownloadResponse(id).code = 404
                 /\ DownloadResponse(id).detail = "Documentation file not found")
    /\ [][tasks' = tasks => (heap' = heap /\ jobs_db' = jobs_db)]_vars

\* C14, witness: a completed job with its result_path set whose file has been
\* removed from the store, at a moment a download can be handled.
C14_Witness ==
    /\ running = 0
    /\ \E id \in DOMAIN jobs_db :
          /\ Job(id).status = "completed"
          /\ IsSet(Job(id).result_path)
          /\ ~Exists(Job(id).result_path)
          /\ DownloadResponse(id).code = 404

\* C15. For every completed job whose file is on the store, a download
\* returns the path stored in the record, and the file at that path is what
\* the task scheduled for that record wrote, whole.
C15_OwnArtifact ==
    \A id \in DOMAIN jobs_db :
        (Job(id).status = "completed" /\ Exists(Job(id).result_path)) =>
            LET r == DownloadResponse(id)
            IN /\ r.code = 200
               /\ r.path = Job(id).result_path
               /\ r.content = [by |-> WorkerOf(jobs_db[id]), whole |-> TRUE]

\* C16. A record is changed only by the task that was scheduled for it: in
\* every step that changes a field of a record, that task moves and no other
\* task does; and a step in which no task is scheduled and no task moves (a
\* status, download, template or health request) changes no record and no
\* entry of the table.
C16_OwnWorkerOnly ==
    [][/\ \A r \in DOMAIN heap :
             heap'[r] # heap[r] =>
                 /\ tasks'[WorkerOf(r)] # tasks[WorkerOf(r)]
                 /\ \A v \in DOMAIN tasks \ {WorkerOf(r)} : tasks'[v] = tasks[v]
       /\ (\A w \in DOMAIN tasks' : w \in DOMAIN tasks /\ tasks'[w] = tasks[w])
             => (heap' = heap /\ jobs_db' = jobs_db)]_vars

\* C17. The status of a record moves only forward along scanning, parsing,
\* generating, completed, one place at a time, or from one of the first
\* three to failed: no step skips a status, goes back to one, or leaves
\* completed or failed.
C17_PhaseOrder ==
    [][\A r \in DOMAIN heap :
          heap'[r].status # heap[r].status =>
              <<heap[r].status, heap'[r].status>> \in
                  {<<"scanning", "parsing">>, <<"parsing", "generating">>,
                   <<"generating", "completed">>}
                  \cup (NonTerminal \X {"failed"})]_vars

\* C18. Every task that has been scheduled, started or not, finds its id in
\* the job table; and the step that schedules a task (a submit) leaves the
\* task before its first step, has stored under the returned id a record
\* with progress 0, a non-terminal status and neither result nor error, and
\* has touched no other record, no other task and no file of the store.
C18_RegisteredBeforeStart ==
    /\ [](\A w \in DOMAIN tasks : tasks[w].job_id \in DOMAIN jobs_db)
    /\ [][Len(tasks') = Len(tasks) + 1 =>
             LET k == Len(tasks')
                 id == tasks'[k].job_id
             IN /\ tasks'[k].pc = "pending"
                /\ resp'.job_id = id
                /\ id \in DOMAIN jobs_db'
                /\ FracEq(heap'[jobs_db'[id]].progress, Whole(0))
                /\ heap'[jobs_db'[id]].status \in NonTerminal
                /\ ~IsSet(heap'[jobs_db'[id]].result_path)
                /\ ~IsSet(heap'[jobs_db'[id]].error)
                /\ \A v \in DOMAIN tasks : tasks'[v] = tasks[v]
                /\ \A r \in DOMAIN heap : heap'[r] = heap[r]
                /\ output' = output]_vars

\* C18, witness: a submit has just been answered while another job is in
\* the middle of its parse phase; the new task has not taken a step and its
\* record is in the table with progress 0.
C18_Witness ==
    /\ resp.op = "scan"
    /\ \E w, v \in DOMAIN tasks :
          /\ tasks[w].pc = "pending"
          /\ tasks[w].job_id = resp.job_id
          /\ Job(resp.job_id).status = "scanning"
          /\ FracEq(Job(resp.job_id).progress, Whole(0))
          /\ tasks[v].pc = "parse"
          /\ tasks[v].job # jobs_db[resp.job_id]

\* C19. Once a collaborator call of a task has raised, the task is over and
\* stays as it is: it takes no further step, so it makes no further call
\* (the call that raised is not made again, no later phase begins), and
\* no file it wrote changes or appears afterwards.
C19_NoCallAfterFailure ==
    [][\A w \in DOMAIN tasks :
          tasks[w].exc # NoVal =>
              /\ tasks[w].pc = "done"
              /\ tasks'[w] = tasks[w]
              /\ \A p \in DOMAIN output' :
                    output'[p].by = w =>
                        p \in DOMAIN output /\ output'[p] = output[p]]_vars

\* C19, witness: every task has ended, one of them because its scan raised;
\* its record is failed with the progress of the scan phase and it left no
\* file, while another task went on to write its file.
C19_Witness ==
    /\ \A v \in DOMAIN tasks : tasks[v].pc = "done"
    /\ \E w, v \in DOMAIN tasks :
          /\ tasks[w].exc = "scan failed"
          /\ heap[tasks[w].job].status = "failed"
          /\ FracEq(heap[tasks[w].job].progress, Whole(10))
          /\ \A p \in DOMAIN output : output[p].by # w
          /\ tasks[v].exc = NoVal
          /\ \E p \in DOMAIN output : output[p].by = v

\* C20. In every state GET /health reports as jobs_count the number of
\* records the table holds and as active_jobs the number of them that are
\* neither completed nor failed, so that jobs_count is active_jobs plus the
\* completed plus the failed; and the status of every record is one of
\* scanning, parsing, generating, completed, failed.
C20_HealthCounts ==
    LET records == {jobs_db[id] : id \in DOMAIN jobs_db}
        WithStatus(S) == {r \in records : heap[r].status \in S}
    IN /\ HealthResponse.jobs_count = Cardinality(records)
       /\ HealthResponse.active_jobs = Cardinality(records \ WithStatus(Terminal))
       /\ HealthResponse.jobs_count =
              HealthResponse.active_jobs + Cardinality(WithStatus({"completed"}))
                  + Cardinality(WithStatus({"failed"}))
       /\ \A r \in DOMAIN heap : heap[r].status \in NonTerminal \cup Terminal

\* C20, witness: the handler can run while one job is generating and another
\* has failed; it reports two jobs, one of them active.
C20_Witness ==
    /\ running = 0
    /\ HealthResponse.jobs_count = 2
    /\ HealthResponse.active_jobs = 1
    /\ \E a, b \in DOMAIN jobs_db :
          Job(a).status = "generating" /\ Job(b).status = "failed"

\* C11. On an event loop that keeps running, with collaborator calls that
\* return or raise, every submitted job ends: whatever has been submitted,
\* a state follows in which every scheduled task has ended, the record it
\* ran on is completed or failed, and so is every record the table shows;
\* and the step in which the clone of a task raises leaves that task's
\* record failed.
C11_EveryJobEnds ==
    /\ []<>(/\ \A w \in DOMAIN tasks :
                  /\ tasks[w].pc = "done"
                  /\ heap[tasks[w].job].status \in Terminal
            /\ \A id \in DOMAIN jobs_db : Job(id).status \in Terminal)
    /\ [][\A w \in DOMAIN tasks :
             (tasks[w].pc = "source" /\ tasks'[w].exc = "clone failed") =>
                 (tasks'[w].pc = "done"
                    /\ heap'[tasks[w].job].status = "failed")]_vars

\* C11, witness: every task has ended; the clone of one raised and its record
\* is failed, the other ran through and its record is completed.
C11_Witness ==
    /\ Len(tasks) = MaxSubmits
    /\ \A w \in DOMAIN tasks :
          tasks[w].pc = "done" /\ heap[tasks[w].job].status \in Terminal
    /\ \E w, v \in DOMAIN tasks :
          /\ tasks[w].exc = "clone failed"
          /\ heap[tasks[w].job].status = "failed"
          /\ heap[tasks[v].job].status = "completed"

\* C21. The directory a task scans for a request with a repo_url holds the
\* clone of that url, whatever was scanned before; and two scans for
\* different urls never read the same clone directory.
C21_OwnSource ==
    /\ \A k \in DOMAIN scans :
          (scans[k].via = "clone_repository" /\ ~scans[k].failed) =>
              scans[k].holds = scans[k].request.repo_url
    /\ \A j, k \in DOMAIN scans :
          (/\ scans[j].via = "clone_repository" /\ ~scans[j].failed
           /\ scans[k].via = "clone_repository" /\ ~scans[k].failed
           /\ scans[j].request.repo_url # scans[k].request.repo_url) =>
              scans[j].code_path # scans[k].code_path

\* C23. A task takes the clone branch exactly when repo_url is a non-empty
\* text, also when local_path is given too; otherwise it scans local_path,
\* or "." when local_path is None or empty; and no task fails on the local
\* branch, whatever the request leaves out.
C23_SourceSelection ==
    \A k \in DOMAIN scans :
        LET e == scans[k]
            r == e.request
        IN /\ e.via = "clone_repository" <=> (r.repo_url.some /\ r.repo_url.text # <<>>)
           /\ e.via = "local_path" =>
                 /\ ~e.failed
                 /\ (r.local_path.some /\ r.local_path.text # <<>>) =>
                        e.code_path = r.local_path.text
                 /\ (~r.local_path.some \/ r.local_path.text = <<>>) =>
                        e.code_path = << <<".">> >>
           /\ e.via = "clone_repository" /\ ~e.failed =>
                 e.code_path = RepoDir(r.repo_url.text)

\* C23, witness: a request with neither field has been scanned at ".", and
\* a request with both fields has gone to the clone of its url.
C23_Witness ==
    \E j, k \in DOMAIN scans :
        /\ scans[j].request = [repo_url |-> None, local_path |-> None]
        /\ scans[j].code_path = << <<".">> >>
        /\ ~scans[j].failed
        /\ scans[k].request = [repo_url |-> Str(UrlC),
                               local_path |-> Str(<< <<"src">> >>)]
        /\ scans[k].via = "clone_repository"
        /\ scans[k].code_path = <<"repos", <<"lib">>>>

\* C22. Each of the phases scanning, parsing and generating of a task makes
\* exactly one collaborator call: a call is never followed by another call
\* of the same phase, the scan is followed by a parse call, and nothing is
\* called between the generate call and the completion.
C22_OneCallPerPhase ==
    [][\A w \in DOMAIN tasks :
          tasks'[w] # tasks[w] =>
              /\ (CallAt(tasks[w]) # NoVal /\ CallAt(tasks'[w]) # NoVal) =>
                     PhaseOf(CallAt(tasks[w])) # PhaseOf(CallAt(tasks'[w]))
              /\ tasks[w].pc = "scan" => tasks'[w].pc \in {"parse", "done"}
              /\ tasks[w].pc = "save" => tasks'[w].pc # "render"]_vars

\* C22, as the code has it.  The calls of a task follow one another in this
\* order, each awaited before the next step: clone_repository once if and
\* only if repo_url is given, scan_directory once, parse_file once for each
\* file found in turn (not at all when none was found), then
\* generate_documentation once, then render_html once if and only if the
\* style is html; a call that raises ends the task.
C22_CallSequence ==
    [][\A w \in DOMAIN tasks :
          LET t == tasks[w]
              u == tasks'[w]
          IN u # t =>
               \/ u.pc = "done" /\ u.exc # NoVal /\ CallAt(t) # NoVal
               \/ u.pc = "done" /\ u.exc = "write failed" /\ t.pc = "save"
               \/ t.pc = "pending" /\ u.pc = "source"
               \/ t.pc = "source" /\ u.pc = "scan"
               \/ t.pc = "scan" /\ u.pc = "parse" /\ u.files >= 1 /\ u.i = 0
               \/ t.pc = "scan" /\ u.pc = "generating"
                    /\ heap'[t.job].message = "Found 0 files to document"
               \/ t.pc = "parse" /\ u.pc = "parse" /\ u.files = t.files
                    /\ u.i = t.i + 1 /\ u.i < t.files
               \/ t.pc = "parse" /\ u.pc = "generating" /\ t.i + 1 = t.files
               \/ t.pc = "generating" /\ u.pc = "generate"
               \/ t.pc = "generate" /\ u.pc = "save"
               \/ t.pc = "save" /\ u.pc = "render" /\ t.request.doc_style = "html"
               \/ t.pc = "save" /\ u.pc = "complete" /\ t.request.doc_style # "html"
               \/ t.pc = "render" /\ u.pc = "complete"
               \/ t.pc = "complete" /\ u.pc = "done" /\ u.exc = NoVal]_vars

\* C22, witness: a task that cloned its repository and scanned it is about
\* to make its second parse call, its record still parsing; another task
\* is waiting for render_html after its generate call.
C22_Witness ==
    \E w, v \in DOMAIN tasks :
        /\ tasks[w].pc = "parse" /\ tasks[w].i = 1 /\ tasks[w].files = 2
        /\ tasks[w].request.repo_url # NoVal
        /\ heap[tasks[w].job].status = "parsing"
        /\ tasks[v].pc = "render"
        /\ heap[tasks[v].job].status = "generating"

\* The paths of a result relative to the directory that was scanned.
RelativeTo(files, directory) ==
    {SubSeq(files[k], Len(directory) + 1, Len(files[k])) : k \in DOMAIN files}

\* C24. The files scan_directory lists depend only on the names below the
\* directory scanned: the same tree under any other directory gives the
\* same relative paths; the result is sorted; and every file listed matches
\* a file pattern and has a supported extension.
C24_RootIndependent ==
    walk.op = "scan_directory" =>
        /\ \A other \in Directories :
              RelativeTo(ScanDirectoryResult(other, walk.tree, walk.file_patterns,
                                             walk.exclude_patterns), other)
                  = RelativeTo(walk.files, walk.directory)
        /\ \A j, k \in DOMAIN walk.files :
              j < k => PathLess(walk.files[j], walk.files[k])
        /\ \A k \in DOMAIN walk.files :
              LET name == walk.files[k][Len(walk.files[k])]
              IN /\ name.ext \in supported_extensions
                 /\ MatchesPatterns(name,
                       IF walk.file_patterns = {} THEN DefaultFilePatterns
                       ELSE walk.file_patterns)

\* C24, the part that holds: the result is sorted and every file in it
\* matches a file pattern and has a supported extension.
C24_SortedSupported ==
    walk.op = "scan_directory" =>
        /\ \A j, k \in DOMAIN walk.files :
              j < k => PathLess(walk.files[j], walk.files[k])
        /\ \A k \in DOMAIN walk.files :
              LET name == walk.files[k][Len(walk.files[k])]
              IN /\ name.ext \in supported_extensions
                 /\ MatchesPatterns(name,
                       IF walk.file_patterns = {} THEN DefaultFilePatterns
                       ELSE walk.file_patterns)


\* The list of a session strictly alternates user, assistant, ... and every
\* answered request's assistant message stands right after its user message.
Alternates(msgs) ==
    \A i \in DOMAIN msgs :
        msgs[i].role = (IF i % 2 = 1 THEN "user" ELSE "assistant")

\* C25. Every conversation's message list strictly alternates user,
\* assistant, user, assistant, ... starting with a user message, and each
\* assistant message directly follows the user message it answers, for
\* every interleaving of concurrent chat requests on one session_id.
C25_Alternation ==
    /\ \A s \in DOMAIN conversations :
          \A i \in DOMAIN conversations[s] :
              /\ i % 2 = 1 => conversations[s][i].role = "user"
              /\ i % 2 = 0 => conversations[s][i].role = "assistant"
    /\ \A k \in DOMAIN chats :
          chats[k].assistant_at # 0 =>
              chats[k].assistant_at = chats[k].user_at + 1

\* C25 in main_simple.py, whose handler never suspends: it holds there.
C25_AlternationSimple ==
    /\ \A s \in DOMAIN conversations : Alternates(conversations[s])
    /\ \A k \in DOMAIN chats : chats[k].assistant_at = chats[k].user_at + 1


\* The chats received for session s, and those of them that were answered.
ChatsOf(s) == {k \in DOMAIN chats : chats[k].session_id = s}
AnsweredOf(s) == {k \in ChatsOf(s) : chats[k].pc = "done"}
IsPrefix(a, b) == Len(a) <= Len(b) /\ \A i \in DOMAIN a : a[i] = b[i]

\* C26. Every chat request that completes appends exactly one user message
\* and exactly one assistant message to its session and to no other
\* session, even when the Ollama call fails (connection error, other
\* exception, non-200 status): the failure becomes the assistant message
\* text and a normal response, never HTTP 500; and conversations are
\* append-only (no message or session is ever removed or rewritten).
C26_OnePairPerChat ==
    /\ [](/\ \A s \in DOMAIN conversations :
               Len(conversations[s]) =
                   Cardinality(ChatsOf(s)) + Cardinality(AnsweredOf(s))
          /\ \A k \in DOMAIN chats :
               LET c == chats[k]
               IN /\ c.session_id \in DOMAIN conversations
                  /\ c.user_at \in DOMAIN conversations[c.session_id]
                  /\ conversations[c.session_id][c.user_at] =
                         Message("user", c.request.message)
                  /\ c.pc = "done" =>
                       /\ c.status_code = 200
                       /\ c.assistant_at \in DOMAIN conversations[c.session_id]
                       /\ c.assistant_at # c.user_at
                       /\ conversations[c.session_id][c.assistant_at] =
                              Message("assistant", c.response)
                       /\ c.outcome.kind = "ConnectError" =>
                              c.response[1] = "Demo response (Ollama not connected)"
                       /\ c.outcome.kind = "Exception" =>
                              c.response = <<"Error connecting to Ollama:", c.outcome.e>>
                       /\ (c.outcome.kind = "response" /\ c.outcome.status_code # 200) =>
                              c.response = <<"Error: Ollama returned status",
                                             c.outcome.status_code>>)
    /\ [][\A s \in DOMAIN conversations :
              /\ s \in DOMAIN conversations'
              /\ IsPrefix(conversations[s], conversations'[s])]_vars

\* Two chats of one session have both been answered after their calls of
\* Ollama failed in different ways, and the conversation has been read.
C26_Witness ==
    /\ \E j, k \in DOMAIN chats :
          /\ j # k
          /\ chats[j].session_id = chats[k].session_id
          /\ chats[j].pc = "done" /\ chats[k].pc = "done"
          /\ chats[j].outcome.kind = "Exception"
          /\ chats[k].outcome.kind = "response"
          /\ chats[k].outcome.status_code = 500
          /\ Len(conversations[chats[k].session_id]) = 4
    /\ chatResp # NoResp
    /\ chatResp.status_code = 200
    /\ Len(chatResp.messages) = 4


C28_NoTempFileLeft ==
    \A k \in DOMAIN reqs :
        (reqs[k].pc = "done" /\ reqs[k].tmp_file # NoVal)
            => reqs[k].tmp_file \notin tmp

\* C28 for the requests that succeed: their temporary file is removed.
C28_RemovedOnSuccess ==
    \A k \in DOMAIN reqs :
        (reqs[k].pc = "done" /\ reqs[k].status_code = 200)
            => reqs[k].tmp_file \notin tmp

\* C29. Every stored transcription was produced by the model named in its
\* request: whisper_manager.model_name always names the model object
\* actually loaded, a failed load_model leaves both the loaded model and
\* model_name unchanged, POST /api/models/{name} with a name outside
\* available_models answers 400 without changing the current model, and
\* transcribe_audio never transcribes with a model other than the one
\* requested.
C29_RequestedModel ==
    /\ [](/\ whisper_manager.model # NoVal
               => whisper_manager.model = whisper_manager.model_name
          /\ \A k \in DOMAIN reqs :
               (reqs[k].pc = "done" /\ reqs[k].status_code = 200)
                   => /\ reqs[k].used = reqs[k].request.model
                      /\ transcriptions_db[reqs[k].transcription_id].text[4]
                             = reqs[k].request.model)
    /\ [][(sttResp' # sttResp /\ sttResp'.op = "load_model")
              => /\ sttResp'.model_name \notin available_models
                        <=> sttResp'.status_code = 400
                 /\ sttResp'.status_code # 200
                        => whisper_manager' = whisper_manager]_vars

\* C29 without its last part: the manager's model and model_name agree, a
\* failed load changes neither, and an invalid name answers 400.
C29_ManagerConsistent ==
    /\ [](whisper_manager.model # NoVal
              => whisper_manager.model = whisper_manager.model_name)
    /\ [][/\ (sttResp' # sttResp /\ sttResp'.op = "load_model")
              => /\ sttResp'.model_name \notin available_models
                        <=> sttResp'.status_code = 400
                 /\ sttResp'.status_code # 200
                        => whisper_manager' = whisper_manager
          /\ \A k \in DOMAIN reqs' :
               (k \in DOMAIN reqs /\ reqs[k].pc = "read"
                    /\ reqs'[k].load = "failed"
                    /\ whisper_manager.model # NoVal)
                   => whisper_manager' = whisper_manager]_vars

\* The n most recently uploaded of the first `count` photos, in upload order.
MostRecent(n, count) ==
    SubSeq(photos, (IF n > count THEN 0 ELSE count - n) + 1, count)

\* C30. After any sequence of uploads, GET /api/photos with limit n returns
\* at most n photos, namely the n most recently uploaded ones in upload
\* order, for every integer n >= 0 (n = 0 returns an empty list).
C30_MostRecentPhotos ==
    photoResp # NoResp =>
        /\ Len(photoResp.body) <= photoResp.limit
        /\ photoResp.body = MostRecent(photoResp.limit, photoResp.count)

\* C30 for the limits n >= 1.
C30_MostRecentPhotosPositive ==
    (photoResp # NoResp /\ photoResp.limit >= 1) =>
        /\ Len(photoResp.body) <= photoResp.limit
        /\ photoResp.body = MostRecent(photoResp.limit, photoResp.count)

==========================================================================
